---- MODULE Spec2Model ----
(***************************************************************************)
(* Model of the license extension catalogue (src/src/ext.rs):             *)
(* from_id_ext, the three fact groups Permissions / Conditions /          *)
(* Limitations with their accessors, their Display rendering and their    *)
(* derived ordering, and the per-license table of impl_ext!.              *)
(*                                                                         *)
(* The program has no state of its own; the state of the model is what    *)
(* each caller holds: the identifier it looked up, the handle it got, the *)
(* fact groups it obtained, and the record of its last call.              *)
(***************************************************************************)
EXTENDS Integers, Sequences, FiniteSets, TLC

\* ------------------------------------------------------------------ bounds
\* Number of concurrent callers.
NumCallers == 2
\* A sink accepts between 0 and MaxWrites successful write_str calls before
\* it starts failing; no rendering performs more than 5 writes.
MaxWrites == 5

Callers == 1..NumCallers
Sinks == 0..MaxWrites

\* --------------------------------------------------------------- Option<T>
None == <<>>
Some(x) == <<x>>
is_some(o) == o # None
unwrap(o) == o[1]

\* ------------------------------------------------------- the three structs
\* Field names in declaration order.
PermissionsFields ==
    <<"commercial_use", "distribution", "modification", "patent_rights", "private_use">>
ConditionsFields ==
    <<"disclose_sources", "document_changes", "license_and_copyright_notice",
      "network_use_is_distribution", "same_license">>
LimitationsFields ==
    <<"no_liability", "no_trademark_rights", "no_warranty", "no_patent_rights">>

Permissions ==
    [commercial_use : BOOLEAN, distribution : BOOLEAN, modification : BOOLEAN,
     patent_rights : BOOLEAN, private_use : BOOLEAN]
Conditions ==
    [disclose_sources : BOOLEAN, document_changes : BOOLEAN,
     license_and_copyright_notice : BOOLEAN,
     network_use_is_distribution : BOOLEAN, same_license : BOOLEAN]
Limitations ==
    [no_liability : BOOLEAN, no_trademark_rights : BOOLEAN,
     no_warranty : BOOLEAN, no_patent_rights : BOOLEAN]

Kinds == {"Permissions", "Conditions", "Limitations"}
FieldsOf(kind) ==
    CASE kind = "Permissions" -> PermissionsFields
      [] kind = "Conditions" -> ConditionsFields
      [] kind = "Limitations" -> LimitationsFields
ValuesOf(kind) ==
    CASE kind = "Permissions" -> Permissions
      [] kind = "Conditions" -> Conditions
      [] kind = "Limitations" -> Limitations

\* #[derive(Default)]: every bool field is false.
Default_Permissions ==
    [commercial_use |-> FALSE, distribution |-> FALSE, modification |-> FALSE,
     patent_rights |-> FALSE, private_use |-> FALSE]
Default_Conditions ==
    [disclose_sources |-> FALSE, document_changes |-> FALSE,
     license_and_copyright_notice |-> FALSE,
     network_use_is_distribution |-> FALSE, same_license |-> FALSE]
Default_Limitations ==
    [no_liability |-> FALSE, no_trademark_rights |-> FALSE,
     no_warranty |-> FALSE, no_patent_rights |-> FALSE]
Default(kind) ==
    CASE kind = "Permissions" -> Default_Permissions
      [] kind = "Conditions" -> Default_Conditions
      [] kind = "Limitations" -> Default_Limitations

\* ---------------------------------------------------------------- accessors
commercial_use(self) == self.commercial_use
distribution(self) == self.distribution
modification(self) == self.modification
patent_rights(self) == self.patent_rights
private_use(self) == self.private_use

disclose_sources(self) == self.disclose_sources
document_changes(self) == self.document_changes
license_and_copyright_notice(self) == self.license_and_copyright_notice
network_use_is_distribution(self) == self.network_use_is_distribution
same_license(self) == self.same_license

no_liability(self) == self.no_liability
no_trademark_rights(self) == self.no_trademark_rights
no_warranty(self) == self.no_warranty
no_patent_rights(self) == self.no_patent_rights

\* Dispatch of a call `self.<name>()` to the accessor of that name.
Accessor(name, self) ==
    CASE name = "commercial_use" -> commercial_use(self)
      [] name = "distribution" -> distribution(self)
      [] name = "modification" -> modification(self)
      [] name = "patent_rights" -> patent_rights(self)
      [] name = "private_use" -> private_use(self)
      [] name = "disclose_sources" -> disclose_sources(self)
      [] name = "document_changes" -> document_changes(self)
      [] name = "license_and_copyright_notice" -> license_and_copyright_notice(self)
      [] name = "network_use_is_distribution" -> network_use_is_distribution(self)
      [] name = "same_license" -> same_license(self)
      [] name = "no_liability" -> no_liability(self)
      [] name = "no_trademark_rights" -> no_trademark_rights(self)
      [] name = "no_warranty" -> no_warranty(self)
      [] name = "no_patent_rights" -> no_patent_rights(self)

\* ---------------------------------------------------------------- rendering
\* A Formatter over a sink that accepts `n` more writes and fails afterwards.
Formatter(n) == [buf |-> "", left |-> n, err |-> FALSE]

\* f.write_str(s): appends s, or reports the sink's error.
write_str(f, s) ==
    IF f.left > 0
    THEN [buf |-> f.buf \o s, left |-> f.left - 1, err |-> FALSE]
    ELSE [f EXCEPT !.err = TRUE]

\* Variant: `if flag { let _ = f.write_str(s); }`, the sink's error dropped.
if_write_ignoring(f, flag, s) ==
    IF flag THEN [write_str(f, s) EXCEPT !.err = FALSE] ELSE f

\* `if flag { f.write_str(s)?; }` : skipped once an earlier `?` has returned.
if_write(f, flag, s) ==
    IF f.err THEN f ELSE IF flag THEN write_str(f, s) ELSE f

\* The fmt::Result of a rendering, with what reached the sink.
fmt_result(f) == [buf |-> f.buf, ret |-> IF f.err THEN "Err" ELSE "Ok"]

\* Variant: patent_rights rendered after private_use.
fmt_Permissions_reordered(self, f) ==
    LET f1 == if_write(f, self.commercial_use, "- May be used for commercial purposes.\n")
        f2 == if_write(f1, self.distribution, "- May be distributed.\n")
        f3 == if_write(f2, self.modification, "- May be modified.\n")
        f4 == if_write(f3, self.private_use, "- May be used for private purposes.\n")
        f5 == if_write(f4, self.patent_rights,
                  "- Provides an express grant of patent rights from contributors.\n")
    IN  fmt_result(f5)

fmt_Permissions(self, f) ==
    LET f1 == if_write(f, self.commercial_use, "- May be used for commercial purposes.\n")
        f2 == if_write(f1, self.distribution, "- May be distributed.\n")
        f3 == if_write(f2, self.modification, "- May be modified.\n")
        f4 == if_write(f3, self.patent_rights,
                  "- Provides an express grant of patent rights from contributors.\n")
        f5 == if_write(f4, self.private_use, "- May be used for private purposes.\n")
    IN  fmt_result(f5)

\* Variant: same_license written with the text of document_changes.
fmt_Conditions_copied_line(self, f) ==
    LET f1 == if_write(f, self.disclose_sources,
                  "- Source code must be made available when the software is distributed.\n")
        f2 == if_write(f1, self.document_changes,
                  "- Changes made to the code must be documented.\n")
        f3 == if_write(f2, self.license_and_copyright_notice,
                  "- The license and copyright notice must be included with the software.\n")
        f4 == if_write(f3, self.network_use_is_distribution,
                  "- Users who interact with the software via network are given the right to receive a copy of the source code.\n")
        f5 == if_write(f4, self.same_license,
                  "- Changes made to the code must be documented.\n")
    IN  fmt_result(f5)

fmt_Conditions(self, f) ==
    LET f1 == if_write(f, self.disclose_sources,
                  "- Source code must be made available when the software is distributed.\n")
        f2 == if_write(f1, self.document_changes,
                  "- Changes made to the code must be documented.\n")
        f3 == if_write(f2, self.license_and_copyright_notice,
                  "- The license and copyright notice must be included with the software.\n")
        f4 == if_write(f3, self.network_use_is_distribution,
                  "- Users who interact with the software via network are given the right to receive a copy of the source code.\n")
        f5 == if_write(f4, self.same_license,
                  "- Modifications must be released under the same license.\n")
    IN  fmt_result(f5)

\* Variant: a placeholder line when no limitation is true.
fmt_Limitations_placeholder(self, f) ==
    LET f1 == if_write(f, self.no_liability, "- Includes a limitation of liability.\n")
        f2 == if_write(f1, self.no_trademark_rights, "- Does not grant trademark rights.\n")
        f3 == if_write(f2, self.no_warranty, "- Does not provide any warranty.\n")
        f4 == if_write(f3, self.no_patent_rights,
                  "- Does not provide any rights in the patents of contributors.\n")
        f5 == if_write(f4, f4.buf = "", "- None.\n")
    IN  fmt_result(f5)

fmt_Limitations(self, f) ==
    LET f1 == if_write(f, self.no_liability, "- Includes a limitation of liability.\n")
        f2 == if_write(f1, self.no_trademark_rights, "- Does not grant trademark rights.\n")
        f3 == if_write(f2, self.no_warranty, "- Does not provide any warranty.\n")
        f4 == if_write(f3, self.no_patent_rights,
                  "- Does not provide any rights in the patents of contributors.\n")
    IN  fmt_result(f4)

\* Dispatch of Display::fmt on the type of the value.
fmt(kind, self, f) ==
    CASE kind = "Permissions" -> fmt_Permissions(self, f)
      [] kind = "Conditions" -> fmt_Conditions(self, f)
      [] kind = "Limitations" -> fmt_Limitations(self, f)

\* ------------------------------------------------- derived Eq and Ord
\* bool::cmp : false < true.
cmp_bool(a, b) == IF a = b THEN "Equal" ELSE IF b THEN "Less" ELSE "Greater"

\* Ordering::then : the first non-Equal result decides.
then(o, n) == IF o = "Equal" THEN n ELSE o

cmp_Permissions(a, b) ==
    then(cmp_bool(a.commercial_use, b.commercial_use),
    then(cmp_bool(a.distribution, b.distribution),
    then(cmp_bool(a.modification, b.modification),
    then(cmp_bool(a.patent_rights, b.patent_rights),
         cmp_bool(a.private_use, b.private_use)))))

cmp_Conditions(a, b) ==
    then(cmp_bool(a.disclose_sources, b.disclose_sources),
    then(cmp_bool(a.document_changes, b.document_changes),
    then(cmp_bool(a.license_and_copyright_notice, b.license_and_copyright_notice),
    then(cmp_bool(a.network_use_is_distribution, b.network_use_is_distribution),
         cmp_bool(a.same_license, b.same_license)))))

\* Variant: no_patent_rights compared before no_warranty.
cmp_Limitations_reordered(a, b) ==
    then(cmp_bool(a.no_liability, b.no_liability),
    then(cmp_bool(a.no_trademark_rights, b.no_trademark_rights),
    then(cmp_bool(a.no_patent_rights, b.no_patent_rights),
         cmp_bool(a.no_warranty, b.no_warranty))))

cmp_Limitations(a, b) ==
    then(cmp_bool(a.no_liability, b.no_liability),
    then(cmp_bool(a.no_trademark_rights, b.no_trademark_rights),
    then(cmp_bool(a.no_warranty, b.no_warranty),
         cmp_bool(a.no_patent_rights, b.no_patent_rights))))

cmp(kind, a, b) ==
    CASE kind = "Permissions" -> cmp_Permissions(a, b)
      [] kind = "Conditions" -> cmp_Conditions(a, b)
      [] kind = "Limitations" -> cmp_Limitations(a, b)

eq_Permissions(a, b) ==
    /\ a.commercial_use = b.commercial_use
    /\ a.distribution = b.distribution
    /\ a.modification = b.modification
    /\ a.patent_rights = b.patent_rights
    /\ a.private_use = b.private_use

eq_Conditions(a, b) ==
    /\ a.disclose_sources = b.disclose_sources
    /\ a.document_changes = b.document_changes
    /\ a.license_and_copyright_notice = b.license_and_copyright_notice
    /\ a.network_use_is_distribution = b.network_use_is_distribution
    /\ a.same_license = b.same_license

eq_Limitations(a, b) ==
    /\ a.no_liability = b.no_liability
    /\ a.no_trademark_rights = b.no_trademark_rights
    /\ a.no_warranty = b.no_warranty
    /\ a.no_patent_rights = b.no_patent_rights

eq(kind, a, b) ==
    CASE kind = "Permissions" -> eq_Permissions(a, b)
      [] kind = "Conditions" -> eq_Conditions(a, b)
      [] kind = "Limitations" -> eq_Limitations(a, b)

\* ------------------------------------------------- the license records
\* The invocation of impl_ext!: for each unit struct, the fields its
\* permissions(), conditions() and limitations() literals set to true.
\* (An empty list, as in `conditions: ;`, sets none.)
impl_AFL_3_0 ==
    [permissions |-> {"commercial_use", "distribution", "modification", "patent_rights", "private_use"},
     conditions |-> {"document_changes", "license_and_copyright_notice"},
     limitations |-> {"no_liability", "no_trademark_rights", "no_warranty"}]

impl_AGPL_3_0_only ==
    [permissions |-> {"commercial_use", "distribution", "modification", "patent_rights", "private_use"},
     conditions |-> {"disclose_sources", "document_changes", "license_and_copyright_notice", "network_use_is_distribution", "same_license"},
     limitations |-> {"no_liability", "no_warranty"}]

impl_Apache_2_0 ==
    [permissions |-> {"commercial_use", "distribution", "modification", "patent_rights", "private_use"},
     conditions |-> {"document_changes", "license_and_copyright_notice"},
     limitations |-> {"no_liability", "no_trademark_rights", "no_warranty"}]

impl_BSD_0 ==
    [permissions |-> {"commercial_use", "distribution", "modification", "private_use"},
     conditions |-> {},
     limitations |-> {"no_liability", "no_warranty"}]

impl_BSD_2_Clause ==
    [permissions |-> {"commercial_use", "distribution", "modification", "private_use"},
     conditions |-> {"license_and_copyright_notice"},
     limitations |-> {"no_liability", "no_warranty"}]

impl_BSD_3_Clause ==
    [permissions |-> {"commercial_use", "distribution", "modification", "private_use"},
     conditions |-> {"license_and_copyright_notice"},
     limitations |-> {"no_liability", "no_warranty"}]

impl_BSD_3_Clause_Clear ==
    [permissions |-> {"commercial_use", "distribution", "modification", "private_use"},
     conditions |-> {"license_and_copyright_notice"},
     limitations |-> {"no_liability", "no_warranty", "no_patent_rights"}]

impl_BSL_1_0 ==
    [permissions |-> {"commercial_use", "distribution", "modification", "private_use"},
     conditions |-> {"license_and_copyright_notice"},
     limitations |-> {"no_liability", "no_warranty"}]

\* Variant: CC0_1_0 given the five permissions.
impl_CC0_1_0_patent ==
    [permissions |-> {"commercial_use", "distribution", "modification", "patent_rights", "private_use"},
     conditions |-> {},
     limitations |-> {"no_liability", "no_trademark_rights", "no_warranty", "no_patent_rights"}]

impl_CC0_1_0 ==
    [permissions |-> {"commercial_use", "distribution", "modification", "private_use"},
     conditions |-> {},
     limitations |-> {"no_liability", "no_trademark_rights", "no_warranty", "no_patent_rights"}]

impl_ECL_2_0 ==
    [permissions |-> {"commercial_use", "distribution", "modification", "patent_rights", "private_use"},
     conditions |-> {"document_changes", "license_and_copyright_notice"},
     limitations |-> {"no_liability", "no_trademark_rights", "no_warranty"}]

impl_GPL_3_0_only ==
    [permissions |-> {"commercial_use", "distribution", "modification", "patent_rights", "private_use"},
     conditions |-> {"disclose_sources", "document_changes", "license_and_copyright_notice", "same_license"},
     limitations |-> {"no_liability", "no_warranty"}]

impl_LGPL_3_0_only ==
    [permissions |-> {"commercial_use", "distribution", "modification", "patent_rights", "private_use"},
     conditions |-> {"disclose_sources", "document_changes", "license_and_copyright_notice", "same_license"},
     limitations |-> {"no_liability", "no_warranty"}]

impl_MIT ==
    [permissions |-> {"commercial_use", "distribution", "modification", "private_use"},
     conditions |-> {"license_and_copyright_notice"},
     limitations |-> {"no_liability", "no_warranty"}]

impl_MPL_2_0 ==
    [permissions |-> {"commercial_use", "distribution", "modification", "patent_rights", "private_use"},
     conditions |-> {"disclose_sources", "license_and_copyright_notice", "same_license"},
     limitations |-> {"no_liability", "no_trademark_rights", "no_warranty"}]

\* Variant: MS_PL given no_liability as well.
impl_MS_PL_liability ==
    [permissions |-> {"commercial_use", "distribution", "modification", "patent_rights", "private_use"},
     conditions |-> {"license_and_copyright_notice"},
     limitations |-> {"no_liability", "no_trademark_rights", "no_warranty"}]

impl_MS_PL ==
    [permissions |-> {"commercial_use", "distribution", "modification", "patent_rights", "private_use"},
     conditions |-> {"license_and_copyright_notice"},
     limitations |-> {"no_trademark_rights", "no_warranty"}]

impl_OSL_3_0 ==
    [permissions |-> {"commercial_use", "distribution", "modification", "patent_rights", "private_use"},
     conditions |-> {"disclose_sources", "document_changes", "license_and_copyright_notice", "network_use_is_distribution", "same_license"},
     limitations |-> {"no_liability", "no_trademark_rights", "no_warranty"}]

impl_Unlicense ==
    [permissions |-> {"commercial_use", "distribution", "modification", "private_use"},
     conditions |-> {},
     limitations |-> {"no_liability", "no_warranty"}]

\* Variant: WTFPL given the limitations of Unlicense.
impl_WTFPL_as_Unlicense ==
    [permissions |-> {"commercial_use", "distribution", "modification", "private_use"},
     conditions |-> {},
     limitations |-> {"no_liability", "no_warranty"}]

impl_WTFPL ==
    [permissions |-> {"commercial_use", "distribution", "modification", "private_use"},
     conditions |-> {},
     limitations |-> {}]

impl_Zlib ==
    [permissions |-> {"commercial_use", "distribution", "modification", "private_use"},
     conditions |-> {"document_changes", "license_and_copyright_notice"},
     limitations |-> {"no_liability", "no_warranty"}]

\* The impl of LicenseExt generated for each struct.
impl_ext ==
    [AFL_3_0 |-> impl_AFL_3_0,
     AGPL_3_0_only |-> impl_AGPL_3_0_only,
     Apache_2_0 |-> impl_Apache_2_0,
     BSD_0 |-> impl_BSD_0,
     BSD_2_Clause |-> impl_BSD_2_Clause,
     BSD_3_Clause |-> impl_BSD_3_Clause,
     BSD_3_Clause_Clear |-> impl_BSD_3_Clause_Clear,
     BSL_1_0 |-> impl_BSL_1_0,
     CC0_1_0 |-> impl_CC0_1_0,
     ECL_2_0 |-> impl_ECL_2_0,
     GPL_3_0_only |-> impl_GPL_3_0_only,
     LGPL_3_0_only |-> impl_LGPL_3_0_only,
     MIT |-> impl_MIT,
     MPL_2_0 |-> impl_MPL_2_0,
     MS_PL |-> impl_MS_PL,
     OSL_3_0 |-> impl_OSL_3_0,
     Unlicense |-> impl_Unlicense,
     WTFPL |-> impl_WTFPL,
     Zlib |-> impl_Zlib]

\* The struct literal `T { f: true, ..., ..Default::default() }`.
struct_update(base, trues) ==
    [f \in DOMAIN base |-> IF f \in trues THEN TRUE ELSE base[f]]

\* The three methods of `impl LicenseExt for $struct`.
permissions(self) == struct_update(Default_Permissions, impl_ext[self].permissions)
conditions(self) == struct_update(Default_Conditions, impl_ext[self].conditions)
limitations(self) == struct_update(Default_Limitations, impl_ext[self].limitations)

\* --------------------------------------------------------------- the lookup
\* Variant: an additional arm matching the lower-case "mit".
from_id_ext_lowercase(s) ==
    CASE s = "AFL-3.0" -> Some("AFL_3_0")
      [] s = "AGPL-3.0-only" -> Some("AGPL_3_0_only")
      [] s = "Apache-2.0" -> Some("Apache_2_0")
      [] s = "0BSD" -> Some("BSD_0")
      [] s = "BSD-2-Clause" -> Some("BSD_2_Clause")
      [] s = "BSD-3-Clause" -> Some("BSD_3_Clause")
      [] s = "BSD-3-Clause-Clear" -> Some("BSD_3_Clause_Clear")
      [] s = "BSL-1.0" -> Some("BSL_1_0")
      [] s = "CC0-1.0" -> Some("CC0_1_0")
      [] s = "ECL-2.0" -> Some("ECL_2_0")
      [] s = "GPL-3.0-only" -> Some("GPL_3_0_only")
      [] s = "LGPL-3.0-only" -> Some("LGPL_3_0_only")
      [] s = "MIT" -> Some("MIT")
      [] s = "mit" -> Some("MIT")
      [] s = "MPL-2.0" -> Some("MPL_2_0")
      [] s = "MS-PL" -> Some("MS_PL")
      [] s = "OSL-3.0" -> Some("OSL_3_0")
      [] s = "Unlicense" -> Some("Unlicense")
      [] s = "WTFPL" -> Some("WTFPL")
      [] s = "Zlib" -> Some("Zlib")
      [] OTHER -> None

from_id_ext(s) ==
    CASE s = "AFL-3.0" -> Some("AFL_3_0")
      [] s = "AGPL-3.0-only" -> Some("AGPL_3_0_only")
      [] s = "Apache-2.0" -> Some("Apache_2_0")
      [] s = "0BSD" -> Some("BSD_0")
      [] s = "BSD-2-Clause" -> Some("BSD_2_Clause")
      [] s = "BSD-3-Clause" -> Some("BSD_3_Clause")
      [] s = "BSD-3-Clause-Clear" -> Some("BSD_3_Clause_Clear")
      [] s = "BSL-1.0" -> Some("BSL_1_0")
      [] s = "CC0-1.0" -> Some("CC0_1_0")
      [] s = "ECL-2.0" -> Some("ECL_2_0")
      [] s = "GPL-3.0-only" -> Some("GPL_3_0_only")
      [] s = "LGPL-3.0-only" -> Some("LGPL_3_0_only")
      [] s = "MIT" -> Some("MIT")
      [] s = "MPL-2.0" -> Some("MPL_2_0")
      [] s = "MS-PL" -> Some("MS_PL")
      [] s = "OSL-3.0" -> Some("OSL_3_0")
      [] s = "Unlicense" -> Some("Unlicense")
      [] s = "WTFPL" -> Some("WTFPL")
      [] s = "Zlib" -> Some("Zlib")
      [] OTHER -> None

\* ------------------------------------------------------------------ inputs
\* The identifiers of the 19 match arms.
SupportedIds ==
    {"AFL-3.0", "AGPL-3.0-only", "Apache-2.0", "0BSD", "BSD-2-Clause",
     "BSD-3-Clause", "BSD-3-Clause-Clear", "BSL-1.0", "CC0-1.0", "ECL-2.0",
     "GPL-3.0-only", "LGPL-3.0-only", "MIT", "MPL-2.0", "MS-PL", "OSL-3.0",
     "Unlicense", "WTFPL", "Zlib"}

\* Strings that are no match arm: empty, other case, surrounding whitespace,
\* "+" suffix, a prefix or an extension of an arm, the name of the unit
\* struct, other licenses.
OtherIds ==
    {"", "mit", "Mit", "MIT ", " MIT", "MIT\n", "MIT+", "GPL-3.0-only+",
     "GPL-2.0", "GPL-3.0", "BSD-3-Clause-", "BSD", "apache-2.0", "APACHE-2.0",
     "AFL_3_0", "BSD_0", "zlib", "ZLIB", "wtfpl", "Unknown-License"}

Ids == SupportedIds \cup OtherIds

\* The identifiers the concurrent callers use.
ConcIds == {"MIT", "WTFPL", "mit"}

\* ------------------------------------------------------------------- state
VARIABLES
    id,       \* id[t]: the string caller t last passed to from_id_ext
    handle,   \* handle[t]: what that call returned
    perm,     \* perm[t]: what handle.permissions() returned, once called
    cond,     \* cond[t]: what handle.conditions() returned, once called
    lim,      \* lim[t]: what handle.limitations() returned, once called
    val,      \* val[t]: a fact group built without a license
    last      \* last[t]: caller t's last call, its arguments and its result

vars == <<id, handle, perm, cond, lim, val, last>>

Init ==
    /\ id = [t \in Callers |-> None]
    /\ handle = [t \in Callers |-> None]
    /\ perm = [t \in Callers |-> None]
    /\ cond = [t \in Callers |-> None]
    /\ lim = [t \in Callers |-> None]
    /\ val = [t \in Callers |-> None]
    /\ last = [t \in Callers |-> [op |-> "init"]]

\* The fact groups caller t holds, each with its type.
Typed(kind, o) == IF is_some(o) THEN {[kind |-> kind, v |-> unwrap(o)]} ELSE {}
Held(t) ==
    Typed("Permissions", perm[t]) \cup Typed("Conditions", cond[t])
        \cup Typed("Limitations", lim[t]) \cup (IF is_some(val[t]) THEN {unwrap(val[t])} ELSE {})

Range(q) == {q[i] : i \in DOMAIN q}

\* ----------------------------------------------------------------- actions
\* Variant: a lookup that hands a record out to one caller at a time.
from_id_ext_call_exclusive(t, s) ==
    LET taken == \E u \in Callers \ {t} : is_some(handle[u]) /\ handle[u] = from_id_ext(s)
        r == IF taken THEN None ELSE from_id_ext(s)
    IN  /\ id' = [id EXCEPT ![t] = Some(s)]
        /\ handle' = [handle EXCEPT ![t] = r]
        /\ perm' = [perm EXCEPT ![t] = None]
        /\ cond' = [cond EXCEPT ![t] = None]
        /\ lim' = [lim EXCEPT ![t] = None]
        /\ last' = [last EXCEPT ![t] = [op |-> "from_id_ext", arg |-> s, ret |-> r]]
        /\ UNCHANGED val

\* let h = from_id_ext(s);
from_id_ext_call(t, s) ==
    /\ id' = [id EXCEPT ![t] = Some(s)]
    /\ handle' = [handle EXCEPT ![t] = from_id_ext(s)]
    /\ perm' = [perm EXCEPT ![t] = None]
    /\ cond' = [cond EXCEPT ![t] = None]
    /\ lim' = [lim EXCEPT ![t] = None]
    /\ last' = [last EXCEPT ![t] = [op |-> "from_id_ext", arg |-> s, ret |-> from_id_ext(s)]]
    /\ UNCHANGED val

\* let p = h.unwrap().permissions();
permissions_call(t) ==
    /\ is_some(handle[t])
    /\ perm' = [perm EXCEPT ![t] = Some(permissions(unwrap(handle[t])))]
    /\ last' = [last EXCEPT ![t] = [op |-> "permissions", self |-> unwrap(handle[t]),
                                    ret |-> permissions(unwrap(handle[t]))]]
    /\ UNCHANGED <<id, handle, cond, lim, val>>

\* let c = h.unwrap().conditions();
conditions_call(t) ==
    /\ is_some(handle[t])
    /\ cond' = [cond EXCEPT ![t] = Some(conditions(unwrap(handle[t])))]
    /\ last' = [last EXCEPT ![t] = [op |-> "conditions", self |-> unwrap(handle[t]),
                                    ret |-> conditions(unwrap(handle[t]))]]
    /\ UNCHANGED <<id, handle, perm, lim, val>>

\* let l = h.unwrap().limitations();
limitations_call(t) ==
    /\ is_some(handle[t])
    /\ lim' = [lim EXCEPT ![t] = Some(limitations(unwrap(handle[t])))]
    /\ last' = [last EXCEPT ![t] = [op |-> "limitations", self |-> unwrap(handle[t]),
                                    ret |-> limitations(unwrap(handle[t]))]]
    /\ UNCHANGED <<id, handle, perm, cond, val>>

\* let v = <kind>::default();
default_call(t, kind) ==
    /\ val' = [val EXCEPT ![t] = Some([kind |-> kind, v |-> Default(kind)])]
    /\ last' = [last EXCEPT ![t] = [op |-> "default", kind |-> kind, ret |-> Default(kind)]]
    /\ UNCHANGED <<id, handle, perm, cond, lim>>

\* let v = <kind> { ... };  any value of the type, as code of the module can
\* build it (the fields are private).
literal(t, kind, v) ==
    /\ v \in ValuesOf(kind)
    /\ val' = [val EXCEPT ![t] = Some([kind |-> kind, v |-> v])]
    /\ last' = [last EXCEPT ![t] = [op |-> "literal", kind |-> kind, ret |-> v]]
    /\ UNCHANGED <<id, handle, perm, cond, lim>>

\* let b = g.<name>();
accessor_call(t, g, name) ==
    /\ g \in Held(t)
    /\ name \in Range(FieldsOf(g.kind))
    /\ last' = [last EXCEPT ![t] = [op |-> "accessor", kind |-> g.kind, self |-> g.v,
                                    name |-> name, ret |-> Accessor(name, g.v)]]
    /\ UNCHANGED <<id, handle, perm, cond, lim, val>>

\* let r = write!(sink, "{}", g);  the sink accepts n writes.
fmt_call(t, g, n) ==
    /\ g \in Held(t)
    /\ n \in Sinks
    /\ LET r == fmt(g.kind, g.v, Formatter(n))
       IN  last' = [last EXCEPT ![t] = [op |-> "fmt", kind |-> g.kind, self |-> g.v,
                                        sink |-> n, buf |-> r.buf, ret |-> r.ret]]
    /\ UNCHANGED <<id, handle, perm, cond, lim, val>>

\* let o = g.cmp(&other); let e = g == other;
cmp_call(t, g, other) ==
    /\ g \in Held(t)
    /\ other \in ValuesOf(g.kind)
    /\ last' = [last EXCEPT ![t] = [op |-> "cmp", kind |-> g.kind, self |-> g.v,
                                    other |-> other, ret |-> cmp(g.kind, g.v, other),
                                    eq |-> eq(g.kind, g.v, other)]]
    /\ UNCHANGED <<id, handle, perm, cond, lim, val>>

AllTyped == UNION {{[kind |-> k, v |-> v] : v \in ValuesOf(k)} : k \in Kinds}

\* ---------------------------------------------------------- specifications
\* One caller using the registry and the records it returns.
Lookup == \E s \in Ids : from_id_ext_call(1, s)
GetPermissions == permissions_call(1)
GetConditions == conditions_call(1)
GetLimitations == limitations_call(1)
CallAccessor == \E g \in Held(1) : \E name \in Range(FieldsOf(g.kind)) : accessor_call(1, g, name)
Render == \E g \in Held(1) : \E n \in Sinks : fmt_call(1, g, n)

Next ==
    \/ Lookup
    \/ GetPermissions
    \/ GetConditions
    \/ GetLimitations
    \/ CallAccessor
    \/ Render

Spec == Init /\ [][Next]_vars

\* One caller working on fact-group values of every possible content.
MakeDefault == \E k \in Kinds : default_call(1, k)
MakeLiteral == \E g \in AllTyped : literal(1, g.kind, g.v)
Compare == \E g \in Held(1) : \E other \in ValuesOf(g.kind) : cmp_call(1, g, other)

NextValues ==
    \/ MakeDefault
    \/ MakeLiteral
    \/ CallAccessor
    \/ Render
    \/ Compare

SpecValues == Init /\ [][NextValues]_vars

\* Several callers, each running: lookup; permissions(); conditions();
\* limitations(); then accessors and renderings; or a new lookup at any time.
ConcLookup == \E t \in Callers : \E s \in ConcIds : from_id_ext_call(t, s)
ConcPermissions == \E t \in Callers : perm[t] = None /\ permissions_call(t)
ConcConditions == \E t \in Callers : perm[t] # None /\ cond[t] = None /\ conditions_call(t)
ConcLimitations == \E t \in Callers : cond[t] # None /\ lim[t] = None /\ limitations_call(t)
ConcAccessor ==
    \E t \in Callers : \E g \in Held(t) : \E name \in Range(FieldsOf(g.kind)) :
        lim[t] # None /\ accessor_call(t, g, name)
ConcRender ==
    \E t \in Callers : \E g \in Held(t) : lim[t] # None /\ fmt_call(t, g, MaxWrites)

NextConc ==
    \/ ConcLookup
    \/ ConcPermissions
    \/ ConcConditions
    \/ ConcLimitations
    \/ ConcAccessor
    \/ ConcRender

SpecConc == Init /\ [][NextConc]_vars

\* =================================================================== claims
the_id == IF is_some(id[1]) THEN unwrap(id[1]) ELSE "<none>"
TrueFacts(kind, v) == {f \in Range(FieldsOf(kind)) : v[f]}
Key(kind) ==
    CASE kind = "Permissions" -> "P"
      [] kind = "Conditions" -> "C"
      [] kind = "Limitations" -> "L"

\* The per-identifier fact table of the specification (section 6).
All5 == {"commercial_use", "distribution", "modification", "patent_rights", "private_use"}
Four == {"commercial_use", "distribution", "modification", "private_use"}
Table6 ==
    ("AFL-3.0" :> [P |-> All5, C |-> {"document_changes", "license_and_copyright_notice"},
                   L |-> {"no_liability", "no_trademark_rights", "no_warranty"}]) @@
    ("AGPL-3.0-only" :> [P |-> All5,
                   C |-> {"disclose_sources", "document_changes", "license_and_copyright_notice",
                          "network_use_is_distribution", "same_license"},
                   L |-> {"no_liability", "no_warranty"}]) @@
    ("Apache-2.0" :> [P |-> All5, C |-> {"document_changes", "license_and_copyright_notice"},
                   L |-> {"no_liability", "no_trademark_rights", "no_warranty"}]) @@
    ("0BSD" :> [P |-> Four, C |-> {}, L |-> {"no_liability", "no_warranty"}]) @@
    ("BSD-2-Clause" :> [P |-> Four, C |-> {"license_and_copyright_notice"},
                   L |-> {"no_liability", "no_warranty"}]) @@
    ("BSD-3-Clause" :> [P |-> Four, C |-> {"license_and_copyright_notice"},
                   L |-> {"no_liability", "no_warranty"}]) @@
    ("BSD-3-Clause-Clear" :> [P |-> Four, C |-> {"license_and_copyright_notice"},
                   L |-> {"no_liability", "no_warranty", "no_patent_rights"}]) @@
    ("BSL-1.0" :> [P |-> Four, C |-> {"license_and_copyright_notice"},
                   L |-> {"no_liability", "no_warranty"}]) @@
    ("CC0-1.0" :> [P |-> Four, C |-> {},
                   L |-> {"no_liability", "no_trademark_rights", "no_warranty", "no_patent_rights"}]) @@
    ("ECL-2.0" :> [P |-> All5, C |-> {"document_changes", "license_and_copyright_notice"},
                   L |-> {"no_liability", "no_trademark_rights", "no_warranty"}]) @@
    ("GPL-3.0-only" :> [P |-> All5,
                   C |-> {"disclose_sources", "document_changes", "license_and_copyright_notice",
                          "same_license"},
                   L |-> {"no_liability", "no_warranty"}]) @@
    ("LGPL-3.0-only" :> [P |-> All5,
                   C |-> {"disclose_sources", "document_changes", "license_and_copyright_notice",
                          "same_license"},
                   L |-> {"no_liability", "no_warranty"}]) @@
    ("MIT" :> [P |-> Four, C |-> {"license_and_copyright_notice"},
                   L |-> {"no_liability", "no_warranty"}]) @@
    ("MPL-2.0" :> [P |-> All5,
                   C |-> {"disclose_sources", "license_and_copyright_notice", "same_license"},
                   L |-> {"no_liability", "no_trademark_rights", "no_warranty"}]) @@
    ("MS-PL" :> [P |-> All5, C |-> {"license_and_copyright_notice"},
                   L |-> {"no_trademark_rights", "no_warranty"}]) @@
    ("OSL-3.0" :> [P |-> All5,
                   C |-> {"disclose_sources", "document_changes", "license_and_copyright_notice",
                          "network_use_is_distribution", "same_license"},
                   L |-> {"no_liability", "no_trademark_rights", "no_warranty"}]) @@
    ("Unlicense" :> [P |-> Four, C |-> {}, L |-> {"no_liability", "no_warranty"}]) @@
    ("WTFPL" :> [P |-> Four, C |-> {}, L |-> {}]) @@
    ("Zlib" :> [P |-> Four, C |-> {"document_changes", "license_and_copyright_notice"},
                   L |-> {"no_liability", "no_warranty"}])

TableIds ==
    {"AFL-3.0", "AGPL-3.0-only", "Apache-2.0", "0BSD", "BSD-2-Clause",
     "BSD-3-Clause", "BSD-3-Clause-Clear", "BSL-1.0", "CC0-1.0", "ECL-2.0",
     "GPL-3.0-only", "LGPL-3.0-only", "MIT", "MPL-2.0", "MS-PL", "OSL-3.0",
     "Unlicense", "WTFPL", "Zlib"}

\* C1: for each of the 19 identifiers of the table, from_id_ext returns a
\* record, the groups its permissions(), conditions() and limitations()
\* return hold exactly the facts the table lists, and each accessor called on
\* such a group returns true iff its fact is listed for that identifier.
C1_TableMatches ==
    the_id \in TableIds =>
        /\ DOMAIN Table6 = TableIds
        /\ is_some(handle[1])
        /\ last[1].op = "from_id_ext" => is_some(last[1].ret)
        /\ \A g \in Held(1) : TrueFacts(g.kind, g.v) = Table6[the_id][Key(g.kind)]
        /\ last[1].op = "accessor" =>
              (last[1].ret <=> last[1].name \in Table6[the_id][Key(last[1].kind)])

C1_Witness ==
    /\ the_id = "AGPL-3.0-only"
    /\ perm[1] # None /\ cond[1] # None /\ lim[1] # None
    /\ last[1].op = "accessor"
    /\ last[1].name = "network_use_is_distribution"
    /\ last[1].ret = TRUE

\* C2: a string that is not exactly one of the 19 supported identifiers gets
\* the empty result None, never a record.
C2_UnknownIsNone ==
    (is_some(id[1]) /\ the_id \notin TableIds) =>
        /\ handle[1] = None
        /\ last[1].op = "from_id_ext" /\ last[1].ret = None

C2_Witness ==
    /\ id[1] = Some("mit")
    /\ last[1].op = "from_id_ext"
    /\ last[1].ret = None

\* C4 as stated: lookup("WTFPL") gives a record all of whose three groups are
\* empty: all 14 facts false, every group rendering to the empty text.
C4_Original ==
    the_id = "WTFPL" =>
        /\ is_some(handle[1])
        /\ \A g \in Held(1) : TrueFacts(g.kind, g.v) = {}
        /\ (last[1].op = "fmt" /\ last[1].ret = "Ok") => last[1].buf = ""

\* C4 amended: lookup("WTFPL") gives a record whose conditions and
\* limitations are empty (all 9 facts false, each rendering to the empty
\* text and Ok whatever the sink), and whose permissions are commercial_use,
\* distribution, modification and private_use (patent_rights false), which
\* render to four lines.
C4_Amended ==
    the_id = "WTFPL" =>
        /\ is_some(handle[1])
        /\ is_some(cond[1]) => TrueFacts("Conditions", unwrap(cond[1])) = {}
        /\ is_some(lim[1]) => TrueFacts("Limitations", unwrap(lim[1])) = {}
        /\ is_some(perm[1]) =>
              TrueFacts("Permissions", unwrap(perm[1])) =
                  {"commercial_use", "distribution", "modification", "private_use"}
        /\ (last[1].op = "fmt" /\ last[1].kind # "Permissions") =>
              (last[1].buf = "" /\ last[1].ret = "Ok")
        /\ (last[1].op = "fmt" /\ last[1].kind = "Permissions" /\ last[1].ret = "Ok") =>
              last[1].buf = "- May be used for commercial purposes.\n"
                         \o "- May be distributed.\n"
                         \o "- May be modified.\n"
                         \o "- May be used for private purposes.\n"

C4_Witness ==
    /\ the_id = "WTFPL"
    /\ perm[1] # None /\ cond[1] # None /\ lim[1] # None
    /\ last[1].op = "fmt"
    /\ last[1].kind = "Limitations"
    /\ last[1].sink = 0

\* C10: every record from_id_ext returns permits commercial_use,
\* distribution, modification and private_use, and none has both the
\* permission patent_rights and the limitation no_patent_rights.
C10_CommonPermissions ==
    /\ is_some(perm[1]) =>
          /\ commercial_use(unwrap(perm[1]))
          /\ distribution(unwrap(perm[1]))
          /\ modification(unwrap(perm[1]))
          /\ private_use(unwrap(perm[1]))
    /\ (is_some(perm[1]) /\ is_some(lim[1])) =>
          ~(patent_rights(unwrap(perm[1])) /\ no_patent_rights(unwrap(lim[1])))

C10_Witness ==
    /\ is_some(handle[1])
    /\ is_some(perm[1]) /\ is_some(lim[1])
    /\ no_patent_rights(unwrap(lim[1]))
    /\ ~patent_rights(unwrap(perm[1]))

\* ------------------------------------------------ claims on fact-group values
\* The group holding only fact f, and the line its rendering consists of.
Single(kind, f) == struct_update(Default(kind), {f})
Line(kind, f) == fmt(kind, Single(kind, f), Formatter(1)).buf

\* A bullet line: "- ", some text, and a newline at the end and only there.
IsBulletLine(s) ==
    /\ Len(s) > 3
    /\ SubSeq(s, 1, 2) = "- "
    /\ \A i \in 1..Len(s) : (SubSeq(s, i, i) = "\n") <=> (i = Len(s))

\* The lines of the true facts of v from the i-th declared field on.
RECURSIVE ConcatLines(_, _, _)
ConcatLines(kind, v, i) ==
    IF i > Len(FieldsOf(kind)) THEN ""
    ELSE (IF v[FieldsOf(kind)[i]] THEN Line(kind, FieldsOf(kind)[i]) ELSE "")
             \o ConcatLines(kind, v, i + 1)

\* Rendering into a sink that never fails.
to_string(kind, v) == fmt(kind, v, Formatter(Len(FieldsOf(kind)))).buf

\* C3: a completed rendering of any value of any group is the concatenation,
\* in field-declaration order, of one newline-terminated bullet line per true
\* fact and nothing per false fact.
C3_RenderInOrder ==
    (last[1].op = "fmt" /\ last[1].ret = "Ok") =>
        /\ last[1].buf = ConcatLines(last[1].kind, last[1].self, 1)
        /\ \A f \in Range(FieldsOf(last[1].kind)) : IsBulletLine(Line(last[1].kind, f))

C3_Witness ==
    /\ last[1].op = "fmt"
    /\ last[1].ret = "Ok"
    /\ last[1].kind = "Conditions"
    /\ TrueFacts("Conditions", last[1].self) = {"disclose_sources", "same_license"}

\* C5: a default-constructed group has every fact false, every accessor of an
\* all-false group returns false, and rendering an all-false group writes
\* nothing and returns Ok.
C5_DefaultEmpty ==
    /\ last[1].op = "default" => TrueFacts(last[1].kind, last[1].ret) = {}
    /\ (last[1].op = "accessor" /\ last[1].self = Default(last[1].kind)) =>
          last[1].ret = FALSE
    /\ (last[1].op = "fmt" /\ TrueFacts(last[1].kind, last[1].self) = {}) =>
          (last[1].buf = "" /\ last[1].ret = "Ok")

C5_Witness ==
    /\ is_some(val[1])
    /\ unwrap(val[1]).kind = "Limitations"
    /\ TrueFacts("Limitations", unwrap(val[1]).v) = {}
    /\ last[1].op = "fmt"
    /\ last[1].sink = 0
    /\ last[1].buf = ""
    /\ last[1].ret = "Ok"

\* C6 as stated: every accessor returns a boolean and every rendering
\* returns Ok, whatever the sink does with the writes.
C6_Original ==
    /\ last[1].op = "accessor" => last[1].ret \in BOOLEAN
    /\ last[1].op = "fmt" => last[1].ret = "Ok"

\* C6 amended: every accessor returns a boolean; a rendering returns Ok when
\* every write to its sink succeeds and Err exactly when a write fails, the
\* sink then holding the lines written before the failure.
C6_Amended ==
    /\ last[1].op = "accessor" => last[1].ret \in BOOLEAN
    /\ last[1].op = "fmt" =>
          /\ last[1].ret \in {"Ok", "Err"}
          /\ last[1].ret = "Ok" <=>
                Cardinality(TrueFacts(last[1].kind, last[1].self)) <= last[1].sink
          /\ last[1].ret = "Err" =>
                \E w \in ValuesOf(last[1].kind) :
                    /\ TrueFacts(last[1].kind, w) \subseteq TrueFacts(last[1].kind, last[1].self)
                    /\ Cardinality(TrueFacts(last[1].kind, w)) = last[1].sink
                    /\ last[1].buf = to_string(last[1].kind, w)

C6_Witness ==
    /\ last[1].op = "fmt"
    /\ last[1].ret = "Err"
    /\ last[1].sink = 2
    /\ Cardinality(TrueFacts(last[1].kind, last[1].self)) = 3

\* The order the claim describes: the first field, in declaration order, in
\* which a and b differ decides, false below true.
FirstDiff(kind, a, b) ==
    CHOOSE i \in 1..Len(FieldsOf(kind)) :
        /\ a[FieldsOf(kind)[i]] # b[FieldsOf(kind)[i]]
        /\ \A j \in 1..(i - 1) : a[FieldsOf(kind)[j]] = b[FieldsOf(kind)[j]]
Lexicographic(kind, a, b) ==
    IF \A f \in Range(FieldsOf(kind)) : a[f] = b[f] THEN "Equal"
    ELSE IF b[FieldsOf(kind)[FirstDiff(kind, a, b)]] THEN "Less" ELSE "Greater"
Reverse(o) == CASE o = "Less" -> "Greater" [] o = "Greater" -> "Less" [] o = "Equal" -> "Equal"
Le(kind, a, b) == cmp(kind, a, b) \in {"Less", "Equal"}

\* C8: two values of a group are equal iff all their facts are equal, and
\* otherwise compare by the first field in declaration order in which they
\* differ, false below true; the order is antisymmetric, transitive and
\* total, and the all-false default is the least value.
C8_LexicographicOrder ==
    last[1].op = "cmp" =>
        LET k == last[1].kind
            a == last[1].self
            b == last[1].other
        IN  /\ last[1].eq <=> (\A f \in Range(FieldsOf(k)) : a[f] = b[f])
            /\ last[1].eq <=> (last[1].ret = "Equal")
            /\ last[1].ret = Lexicographic(k, a, b)
            /\ cmp(k, b, a) = Reverse(last[1].ret)
            /\ (last[1].ret = "Equal") => (a = b)
            /\ \A c \in ValuesOf(k) :
                  (last[1].ret \in {"Less", "Equal"} /\ Le(k, b, c)) => Le(k, a, c)
            /\ Le(k, Default(k), a)

C8_Witness ==
    /\ last[1].op = "cmp"
    /\ last[1].kind = "Limitations"
    /\ TrueFacts("Limitations", last[1].self) = {"no_patent_rights", "no_trademark_rights"}
    /\ TrueFacts("Limitations", last[1].other) = {"no_warranty", "no_trademark_rights"}
    /\ last[1].ret = "Less"

\* C9: within a group, two values that differ in a fact render to different
\* texts: no other value of the group renders to the text just produced.
C9_RenderInjective ==
    (last[1].op = "fmt" /\ last[1].ret = "Ok") =>
        \A w \in ValuesOf(last[1].kind) :
            (w # last[1].self) => (to_string(last[1].kind, w) # last[1].buf)

C9_Witness ==
    /\ last[1].op = "fmt"
    /\ last[1].ret = "Ok"
    /\ last[1].kind = "Permissions"
    /\ TrueFacts("Permissions", last[1].self) = {"distribution", "modification"}

\* --------------------------------------------------- claim on concurrent callers
Locals(t) == <<id[t], handle[t], perm[t], cond[t], lim[t], val[t], last[t]>>

SameResults(a, b) ==
    /\ handle[a] = handle[b]
    /\ (is_some(perm[a]) /\ is_some(perm[b])) => perm[a] = perm[b]
    /\ (is_some(cond[a]) /\ is_some(cond[b])) => cond[a] = cond[b]
    /\ (is_some(lim[a]) /\ is_some(lim[b])) => lim[a] = lim[b]
    /\ (last[a].op = "accessor" /\ last[b].op = "accessor" /\ last[a].name = last[b].name)
          => last[a].ret = last[b].ret
    /\ (last[a].op = "fmt" /\ last[b].op = "fmt" /\ last[a].kind = last[b].kind)
          => (last[a].buf = last[b].buf /\ last[a].ret = last[b].ret)

====
